---- MODULE Spec2Model ----
(***************************************************************************)
(* Macro console (src/main.cpp): the text codec of config.txt and          *)
(* macros.txt, the macro store, the replay engine and the menu loop.       *)
(*                                                                         *)
(* Text is modelled character by character: a C++ std::string is a TLA+    *)
(* string, a file is its whole content with "\n" line ends, and the        *)
(* extraction operators (operator>>, std::getline, std::stoi) are the      *)
(* scanners below.  int is 32 bits wide.                                   *)
(***************************************************************************)
EXTENDS Integers, Sequences, FiniteSets, TLC

VARIABLES
    pc,           \* where main() is: "start", "menu", "hung", "exit"
    config,       \* AppConfig: [default_delay_ms : Int]
    macros,       \* std::vector<Macro>: Seq([name, actions])
    cfgFile,      \* config.txt: [exists, text]
    macFile,      \* macros.txt: [exists, text]
    cfgWritable,  \* whether std::ofstream can open config.txt
    macWritable,  \* whether std::ofstream can open macros.txt
    eof,          \* std::cin has reached end of input
    sink,         \* SendInput / Sleep calls made by the last handler
    last          \* the last handler: [op, in] (in: the lines it read)

vars == <<pc, config, macros, cfgFile, macFile, cfgWritable, macWritable,
          eof, sink, last>>

-----------------------------------------------------------------------------
(* Characters and 32-bit int                                               *)

IntMax == 2147483647
IntMin == -IntMax - 1

Ch(s, i) == SubSeq(s, i, i)

\* isspace() for the characters the model's texts use
IsSpace(c) == c \in {" ", "\t"}

Digits == "0123456789"

IsDigit(c) == \E d \in 1..10 : Ch(Digits, d) = c

DigitVal(c) == (CHOOSE d \in 1..10 : Ch(Digits, d) = c) - 1

RECURSIVE SkipWs(_, _)
SkipWs(s, i) ==
    IF i <= Len(s) /\ IsSpace(Ch(s, i)) THEN SkipWs(s, i + 1) ELSE i

RECURSIVE TokenEnd(_, _)
TokenEnd(s, i) ==
    IF i <= Len(s) /\ ~IsSpace(Ch(s, i)) THEN TokenEnd(s, i + 1) ELSE i

RECURSIVE DigitsEnd(_, _)
DigitsEnd(s, i) ==
    IF i <= Len(s) /\ IsDigit(Ch(s, i)) THEN DigitsEnd(s, i + 1) ELSE i

\* The digits s[i..j-1] accumulated as a negative number (so that IntMin is
\* reachable); [ok |-> FALSE] as soon as the value leaves the int range.
RECURSIVE Accumulate(_, _, _, _, _)
Accumulate(s, i, j, acc, neg) ==
    IF i >= j THEN [ok |-> TRUE, val |-> IF neg THEN acc ELSE -acc]
    ELSE LET d == DigitVal(Ch(s, i))
             lim == IF neg THEN IntMin ELSE -IntMax
         IN  IF acc < (lim + d) \div 10 + (IF (lim + d) % 10 = 0 THEN 0 ELSE 1)
             THEN [ok |-> FALSE, val |-> 0]
             ELSE Accumulate(s, i + 1, j, acc * 10 - d, neg)

\* The integer scan shared by operator>>(int&) and std::stoi: leading white
\* space, an optional sign, decimal digits; what follows the digits is left
\* unread.  [ok, val, next]: next is the first unread position.
ScanInt(s, i) ==
    LET p == SkipWs(s, i)
        signed == p <= Len(s) /\ Ch(s, p) \in {"-", "+"}
        neg == signed /\ Ch(s, p) = "-"
        q == IF signed THEN p + 1 ELSE p
        e == DigitsEnd(s, q)
        r == Accumulate(s, q, e, 0, neg)
    IN  IF e = q THEN [ok |-> FALSE, val |-> 0, next |-> q]
        ELSE [ok |-> r.ok, val |-> r.val, next |-> e]

\* std::stoi(str): throws (ok = FALSE) on no digits or out of range
Stoi(s) == LET r == ScanInt(s, 1) IN [ok |-> r.ok, val |-> r.val]

\* iss >> token (std::string): [tok, next, good]; good is FALSE once the
\* stream has set eofbit or failbit (a token that runs to the end of the
\* line sets eofbit)
ReadToken(s, i) ==
    LET p == SkipWs(s, i)
        e == TokenEnd(s, p)
    IN  [tok |-> SubSeq(s, p, e - 1), next |-> e, good |-> e <= Len(s)]

DigitStr(d) == Ch(Digits, d + 1)

\* the decimal digits of n <= 0, without sign
RECURSIVE NegDigits(_)
NegDigits(n) ==
    IF n > -10 THEN DigitStr(-n)
    ELSE LET d == (10 - (n % 10)) % 10
         IN  NegDigits((n + d) \div 10) \o DigitStr(d)

\* out << n for an int n
IntToStr(n) == IF n < 0 THEN "-" \o NegDigits(n) ELSE NegDigits(-n)

\* The lines std::getline(in, line) returns in turn: the text split at "\n";
\* a last line without "\n" is returned too, and nothing follows a final "\n".
RECURSIVE FindChar(_, _, _)
FindChar(s, c, i) ==
    IF i > Len(s) THEN 0
    ELSE IF Ch(s, i) = c THEN i ELSE FindChar(s, c, i + 1)

RECURSIVE GetLines(_)
GetLines(text) ==
    IF text = "" THEN <<>>
    ELSE LET k == FindChar(text, "\n", 1)
         IN  IF k = 0 THEN <<text>>
             ELSE <<SubSeq(text, 1, k - 1)>> \o GetLines(SubSeq(text, k + 1, Len(text)))

-----------------------------------------------------------------------------
(* Persistence codec: config.txt                                           *)

DefaultDelayMs == 50

FallbackDelayMs == 50

NoFile == [exists |-> FALSE, text |-> ""]

FileOf(text) == [exists |-> TRUE, text |-> text]

\* ConfigLine with substr(pos) for the value
ConfigLineOffByOne(cfg, line) ==
    LET pos == FindChar(line, "=", 1)
        key == SubSeq(line, 1, pos - 1)
        value == SubSeq(line, pos, Len(line))
        r == Stoi(value)
    IN  IF pos = 0 THEN cfg
        ELSE IF key = "default_delay_ms"
             THEN [default_delay_ms |-> IF r.ok THEN r.val ELSE FallbackDelayMs]
             ELSE cfg

\* the body of LoadConfig's while loop, for one line
ConfigLine(cfg, line) ==
    LET pos == FindChar(line, "=", 1)
        key == SubSeq(line, 1, pos - 1)
        value == SubSeq(line, pos + 1, Len(line))
        r == Stoi(value)
    IN  IF pos = 0 THEN cfg
        ELSE IF key = "default_delay_ms"
             THEN [default_delay_ms |-> IF r.ok THEN r.val ELSE FallbackDelayMs]
             ELSE cfg

RECURSIVE ConfigLines(_, _, _)
ConfigLines(cfg, lines, i) ==
    IF i > Len(lines) THEN cfg
    ELSE ConfigLines(ConfigLine(cfg, lines[i]), lines, i + 1)

\* LoadConfig that returns a zeroed AppConfig when the file is absent
LoadConfigZeroed(file) ==
    IF ~file.exists THEN [default_delay_ms |-> 0]
    ELSE ConfigLines([default_delay_ms |-> DefaultDelayMs], GetLines(file.text), 1)

LoadConfig(file) ==
    LET dflt == [default_delay_ms |-> DefaultDelayMs]
    IN  IF ~file.exists THEN dflt ELSE ConfigLines(dflt, GetLines(file.text), 1)

\* the file after SaveConfig: left as it was when it cannot be opened
SaveConfig(file, writable, cfg) ==
    IF ~writable THEN file
    ELSE FileOf("default_delay_ms=" \o IntToStr(cfg.default_delay_ms) \o "\n")

-----------------------------------------------------------------------------
(* Persistence codec: macros.txt                                           *)

Action(type, a, b) == [type |-> type, a |-> a, b |-> b]

EmptyMacro == [name |-> "", actions |-> <<>>]

\* MoveStep without the test of the stream after the two extractions
MoveStepUnchecked(line, from) ==
    LET dx == ScanInt(line, from)
        dy == ScanInt(line, dx.next)
    IN  <<Action("Move", dx.val, dy.val)>>

\* iss >> dx >> dy after the step token
MoveStep(line, from) ==
    LET dx == ScanInt(line, from)
        dy == ScanInt(line, dx.next)
    IN  IF dx.ok /\ dy.ok THEN <<Action("Move", dx.val, dy.val)>> ELSE <<>>

ClickStep(line, from) ==
    LET button == ReadToken(line, from)
    IN  IF button.tok # ""
        THEN <<Action("Click", IF button.tok = "right" THEN 1 ELSE 0, 0)>>
        ELSE <<>>

\* key <vk> and delay <ms>: iss >> one int
IntStep(type, line, from) ==
    LET v == ScanInt(line, from)
    IN  IF v.ok THEN <<Action(type, v.val, 0)>> ELSE <<>>

\* the actions a step line inside a block appends to current.actions
StepActions(tok, line, from) ==
    IF tok = "move" THEN MoveStep(line, from)
    ELSE IF tok = "click" THEN ClickStep(line, from)
    ELSE IF tok = "key" THEN IntStep("Key", line, from)
    ELSE IF tok = "delay" THEN IntStep("Delay", line, from)
    ELSE <<>>

\* MacroName without the erase of the leading space
MacroNameNoStrip(line, t, old) ==
    IF t.good THEN SubSeq(line, t.next, Len(line)) ELSE old

\* std::getline(iss, current.name) and the strip of one leading space; a
\* stream that is no longer good leaves current.name as it is
MacroName(line, t, old) ==
    LET raw == IF t.good THEN SubSeq(line, t.next, Len(line)) ELSE old
    IN  IF raw # "" /\ Ch(raw, 1) = " " THEN SubSeq(raw, 2, Len(raw)) ELSE raw

\* OpenBlock without `current = Macro{}` after the push_back
OpenBlockNoReset(st, line, t) ==
    LET closed == IF st.in_macro
                  THEN [st EXCEPT !.macros = Append(@, st.current)]
                  ELSE st
    IN  [closed EXCEPT !.in_macro = TRUE,
                       !.current.name = MacroName(line, t, closed.current.name)]

\* the `macro` branch: close an open block, then open the new one
OpenBlock(st, line, t) ==
    LET closed == IF st.in_macro
                  THEN [st EXCEPT !.macros = Append(@, st.current),
                                  !.current = EmptyMacro]
                  ELSE st
    IN  [closed EXCEPT !.in_macro = TRUE,
                       !.current.name = MacroName(line, t, closed.current.name)]

\* the `end` branch
CloseBlock(st) ==
    IF st.in_macro
    THEN [macros |-> Append(st.macros, st.current), current |-> EmptyMacro,
          in_macro |-> FALSE]
    ELSE st

\* the body of LoadMacros's while loop, for one line;
\* st = [macros, current, in_macro]
MacroLine(st, line) ==
    LET t == ReadToken(line, 1)
    IN  IF line = "" THEN st
        ELSE IF t.tok = "macro" THEN OpenBlock(st, line, t)
        ELSE IF t.tok = "end" THEN CloseBlock(st)
        ELSE IF st.in_macro
             THEN [st EXCEPT !.current.actions = @ \o StepActions(t.tok, line, t.next)]
             ELSE st

RECURSIVE MacroLines(_, _, _)
MacroLines(st, lines, i) ==
    IF i > Len(lines) THEN st
    ELSE MacroLines(MacroLine(st, lines[i]), lines, i + 1)

\* AtEndOfInput without the final push_back
AtEndOfInputDropped(st) == st.macros

\* after the loop: a block still open at end of input is emitted
AtEndOfInput(st) ==
    IF st.in_macro THEN Append(st.macros, st.current) ELSE st.macros

LoadMacrosText(text) ==
    AtEndOfInput(MacroLines([macros |-> <<>>, current |-> EmptyMacro,
                             in_macro |-> FALSE], GetLines(text), 1))

LoadMacros(file) == IF ~file.exists THEN <<>> ELSE LoadMacrosText(file.text)

\* the line SaveMacros writes for one action
ActionText(action) ==
    IF action.type = "Move"
    THEN "move " \o IntToStr(action.a) \o " " \o IntToStr(action.b) \o "\n"
    ELSE IF action.type = "Click"
    THEN "click " \o (IF action.a = 1 THEN "right" ELSE "left") \o "\n"
    ELSE IF action.type = "Key" THEN "key " \o IntToStr(action.a) \o "\n"
    ELSE "delay " \o IntToStr(action.a) \o "\n"

RECURSIVE ActionsText(_, _)
ActionsText(actions, i) ==
    IF i > Len(actions) THEN ""
    ELSE ActionText(actions[i]) \o ActionsText(actions, i + 1)

MacroText(macro) ==
    "macro " \o macro.name \o "\n" \o ActionsText(macro.actions, 1) \o "end\n"

RECURSIVE MacrosText(_, _)
MacrosText(ms, i) ==
    IF i > Len(ms) THEN "" ELSE MacroText(ms[i]) \o MacrosText(ms, i + 1)

\* the file after SaveMacros: left as it was when it cannot be opened
SaveMacros(file, writable, ms) ==
    IF ~writable THEN file ELSE FileOf(MacrosText(ms, 1))

-----------------------------------------------------------------------------
(* Execution engine.  A sink event is one INPUT structure handed to         *)
(* SendInput, or one Sleep call; Sleep takes a DWORD, and an int converts   *)
(* to it bit for bit, so the event keeps the int.                          *)

\* the int whose DWORD conversion is INFINITE (0xFFFFFFFF): Sleep never returns
InfiniteMs == -1

WordSize == 65536

Event(ev, a, b) == [ev |-> ev, a |-> a, b |-> b]

SendMouseMove(dx, dy) == <<Event("MOUSE_MOVE", dx, dy)>>

SendMouseClick(right) ==
    IF right THEN <<Event("RIGHTDOWN", 0, 0), Event("RIGHTUP", 0, 0)>>
    ELSE <<Event("LEFTDOWN", 0, 0), Event("LEFTUP", 0, 0)>>

\* wVk = static_cast<WORD>(vk)
SendKey(vk) ==
    <<Event("KEYDOWN", vk % WordSize, 0), Event("KEYUP", vk % WordSize, 0)>>

Sleep(ms) == <<Event("Sleep", ms, 0)>>

\* the calls of one iteration of RunMacro's loop; the Sleep is the last one
ActionEvents(action, cfg) ==
    IF action.type = "Move"
    THEN SendMouseMove(action.a, action.b) \o Sleep(cfg.default_delay_ms)
    ELSE IF action.type = "Click"
    THEN SendMouseClick(action.a = 1) \o Sleep(cfg.default_delay_ms)
    ELSE IF action.type = "Key"
    THEN SendKey(action.a) \o Sleep(cfg.default_delay_ms)
    ELSE Sleep(action.a)

\* whether the Sleep that ends the iteration returns
Returns(events) == events[Len(events)].a # InfiniteMs

\* RunMacro from action i on: [events, done]; done is FALSE when a Sleep
\* never returns, and the actions after it are never executed
RECURSIVE RunFrom(_, _, _)
RunFrom(macro, cfg, i) ==
    IF i > Len(macro.actions) THEN [events |-> <<>>, done |-> TRUE]
    ELSE LET evs == ActionEvents(macro.actions[i], cfg)
             rest == RunFrom(macro, cfg, i + 1)
         IN  IF Returns(evs)
             THEN [events |-> evs \o rest.events, done |-> rest.done]
             ELSE [events |-> evs, done |-> FALSE]

RunMacro(macro, cfg) == RunFrom(macro, cfg, 1)

-----------------------------------------------------------------------------
(* Console input.  A handler is given the lines still to come on std::cin,  *)
(* `inp`; a read past the last of them meets end of input.                 *)

\* ReadIndex when the k-th line of inp is read
ReadIndex(inp, k) ==
    IF k > Len(inp) THEN -1
    ELSE LET r == Stoi(inp[k]) IN IF r.ok THEN r.val ELSE -1

\* ReadLine: an empty string at end of input
ReadLine(inp, k) == IF k > Len(inp) THEN "" ELSE inp[k]

\* one pass of CreateMacro's step loop for the entry `step` read as line k:
\* [add, next]: the actions appended, and the next line to read
StepEntry(step, inp, k) ==
    IF step = "move"
    THEN LET dx == ReadIndex(inp, k + 1)
             dy == ReadIndex(inp, k + 2)
         IN  [add |-> IF dx = -1 \/ dy = -1 THEN <<>>
                      ELSE <<Action("Move", dx, dy)>>,
              next |-> k + 3]
    ELSE IF step = "click"
    THEN LET button == ReadLine(inp, k + 1)
             code == IF button = "right" THEN 1 ELSE 0
         IN  [add |-> <<Action("Click", code, 0)>>, next |-> k + 2]
    ELSE IF step = "key"
    THEN LET vk == ReadIndex(inp, k + 1)
         IN  [add |-> IF vk = -1 THEN <<>> ELSE <<Action("Key", vk, 0)>>,
              next |-> k + 2]
    ELSE IF step = "delay"
    THEN LET ms == ReadIndex(inp, k + 1)
         IN  [add |-> IF ms = -1 THEN <<>> ELSE <<Action("Delay", ms, 0)>>,
              next |-> k + 2]
    ELSE [add |-> <<>>, next |-> k + 1]

\* the step loop of CreateMacro, about to read line k:
\* [actions, used, atEof]: used is the number of lines read, atEof whether
\* the loop ended on end of input rather than on `done`
RECURSIVE CreateSteps(_, _, _)
CreateSteps(actions, inp, k) ==
    IF k > Len(inp) THEN [actions |-> actions, used |-> Len(inp), atEof |-> TRUE]
    ELSE IF inp[k] = "done"
    THEN [actions |-> actions, used |-> k, atEof |-> FALSE]
    ELSE LET e == StepEntry(inp[k], inp, k)
         IN  CreateSteps(actions \o e.add, inp, e.next)

\* macros.push_back(macro) with what the step loop r gathered
PushMacro(ms, name, r) ==
    [macros |-> Append(ms, [name |-> name, actions |-> r.actions]),
     used |-> r.used, atEof |-> r.atEof]

\* CreateMacro without the test of the name
CreateMacroAnyName(ms, inp) ==
    PushMacro(ms, ReadLine(inp, 1), CreateSteps(<<>>, inp, 2))

\* CreateMacro that also refuses a macro without steps
CreateMacroNeedsSteps(ms, inp) ==
    IF ReadLine(inp, 1) = "" \/ CreateSteps(<<>>, inp, 2).actions = <<>>
    THEN [macros |-> ms, used |-> Len(inp), atEof |-> CreateSteps(<<>>, inp, 2).atEof]
    ELSE PushMacro(ms, ReadLine(inp, 1), CreateSteps(<<>>, inp, 2))

\* CreateMacro: [macros, used, atEof]; atEof: a read met end of input
CreateMacro(ms, inp) ==
    IF ReadLine(inp, 1) = ""
    THEN [macros |-> ms, used |-> IF Len(inp) = 0 THEN 0 ELSE 1,
          atEof |-> Len(inp) = 0]
    ELSE PushMacro(ms, ReadLine(inp, 1), CreateSteps(<<>>, inp, 2))

-----------------------------------------------------------------------------
(* main(): the menu loop                                                   *)

MaxMacros == 2

\* what the user may type at the menu prompt
MenuLines == {"0", "1", "2", "3", "4", "5", "6", "7", "8", " 4", "6x", "x", ""}

\* what the user may type at a macro number prompt
IndexLines == {"1", "2", "3", "x"}

\* what the user may type at the default delay prompt
DelayLines == {"7", "-3", "x"}

\* what the user may type while creating a macro
CreateInputs ==
    { <<"A", "move", "-1", "5", "move", "3", "-4", "click", "right",
        "key", "65", "done">>,
      <<"C", "delay", "-1", "key", "x", "jump", "done">>,
      <<"B", "delay", "-2">>,
      <<"C", "jump", "key", "x">>,
      <<"">>,
      <<"", "click", "right", "done">>,
      <<>> }

\* the files main() may find when it starts: none, or both
StartFiles ==
    { <<NoFile, NoFile>>,
      <<FileOf("default_delay_ms=-1\n"),
        FileOf("junk\nmacro\ndelay -1\nmove x 1\nclick left\nkey 65601")>> }

Init ==
    /\ pc = "start"
    /\ config = [default_delay_ms |-> DefaultDelayMs]
    /\ macros = <<>>
    /\ \E f \in StartFiles : cfgFile = f[1] /\ macFile = f[2]
    /\ cfgWritable \in BOOLEAN
    /\ macWritable \in BOOLEAN
    /\ eof = FALSE
    /\ sink = <<>>
    /\ last = [op |-> "none", in |-> <<>>]

Files == <<cfgFile, macFile, cfgWritable, macWritable>>

\* the inputs a handler that reads one line may meet: a line, or end of input
OneLine(lines) == IF eof THEN {<<>>} ELSE {<<l>> : l \in lines} \cup {<<>>}

\* int choice = ReadIndex("Select option: ")
Choice(inp) == ReadIndex(inp, 1)

\* the choices the lines of MenuLines read as
Choices == {Choice(<<l>>) : l \in MenuLines}

\* the menu prompt is answered by a line that reads as `choice`
Chosen(choice) == pc = "menu" /\ ~eof /\ choice \in Choices

\* LoadConfig, LoadMacros, the banner and the first std::getline
Startup ==
    /\ pc = "start"
    /\ config' = LoadConfig(cfgFile)
    /\ macros' = LoadMacros(macFile)
    /\ eof' \in BOOLEAN
    /\ pc' = "menu"
    /\ sink' = <<>>
    /\ last' = [op |-> "start", in |-> <<>>]
    /\ UNCHANGED Files

MenuList ==
    /\ Chosen(1)
    /\ sink' = <<>>
    /\ last' = [op |-> "list", in |-> <<>>]
    /\ UNCHANGED <<pc, config, macros, eof, Files>>

\* MenuRun that runs the last macro when the number entered is out of range
MenuRunClamped ==
    /\ Chosen(2)
    /\ IF macros = <<>>
       THEN /\ sink' = <<>>
            /\ last' = [op |-> "run", in |-> <<>>]
            /\ UNCHANGED <<pc, eof>>
       ELSE \E inp \in OneLine(IndexLines) :
              LET index == ReadIndex(inp, 1)
                  valid == ~(index < 1 \/ index > Len(macros))
                  r == RunMacro(macros[IF valid THEN index ELSE Len(macros)], config)
              IN  /\ eof' = (Len(inp) = 0)
                  /\ last' = [op |-> "run", in |-> inp]
                  /\ sink' = r.events
                  /\ pc' = IF ~r.done THEN "hung" ELSE "menu"
    /\ UNCHANGED <<config, macros, Files>>

MenuRun ==
    /\ Chosen(2)
    /\ IF macros = <<>>
       THEN /\ sink' = <<>>
            /\ last' = [op |-> "run", in |-> <<>>]
            /\ UNCHANGED <<pc, eof>>
       ELSE \E inp \in OneLine(IndexLines) :
              LET index == ReadIndex(inp, 1)
                  valid == ~(index < 1 \/ index > Len(macros))
                  r == RunMacro(macros[index], config)
              IN  /\ eof' = (Len(inp) = 0)
                  /\ last' = [op |-> "run", in |-> inp]
                  /\ sink' = IF valid THEN r.events ELSE <<>>
                  /\ pc' = IF valid /\ ~r.done THEN "hung" ELSE "menu"
    /\ UNCHANGED <<config, macros, Files>>

MenuCreate ==
    /\ Chosen(3)
    /\ Len(macros) < MaxMacros
    /\ \E inp \in (IF eof THEN {<<>>} ELSE CreateInputs) :
         \E r \in {CreateMacro(macros, inp)} :
             /\ r.used = Len(inp)
             /\ macros' = r.macros
             /\ eof' = r.atEof
             /\ last' = [op |-> "create", in |-> inp]
    /\ sink' = <<>>
    /\ UNCHANGED <<pc, config, Files>>

\* Erase with the 1-based position taken as 0-based
EraseOffByOne(ms, index) ==
    SubSeq(ms, 1, index) \o SubSeq(ms, index + 2, Len(ms))

\* macros.erase(macros.begin() + (index - 1))
Erase(ms, index) ==
    SubSeq(ms, 1, index - 1) \o SubSeq(ms, index + 1, Len(ms))

\* DeleteAt with the position clamped into range instead of refused
DeleteAtClamped(ms, index) ==
    IF ms = <<>> THEN ms
    ELSE IF index < 1 THEN Erase(ms, 1)
    ELSE IF index > Len(ms) THEN Erase(ms, Len(ms))
    ELSE Erase(ms, index)

\* the store after choice 4 with `index` entered
DeleteAt(ms, index) ==
    IF index < 1 \/ index > Len(ms) THEN ms ELSE Erase(ms, index)

MenuDelete ==
    /\ Chosen(4)
    /\ \E inp \in OneLine(IndexLines) :
         /\ macros' = DeleteAt(macros, ReadIndex(inp, 1))
         /\ eof' = (Len(inp) = 0)
         /\ last' = [op |-> "delete", in |-> inp]
    /\ sink' = <<>>
    /\ UNCHANGED <<pc, config, Files>>

\* MenuSetDelay that writes config.txt as soon as the delay is accepted
MenuSetDelayAutosave ==
    /\ Chosen(5)
    /\ \E inp \in OneLine(DelayLines) :
         LET delay == ReadIndex(inp, 1)
         IN  /\ config' = IF delay < 0 THEN config
                          ELSE [config EXCEPT !.default_delay_ms = delay]
             /\ cfgFile' = IF delay < 0 THEN cfgFile
                           ELSE SaveConfig(cfgFile, cfgWritable,
                                           [default_delay_ms |-> delay])
             /\ eof' = (Len(inp) = 0)
             /\ last' = [op |-> "delay", in |-> inp]
    /\ sink' = <<>>
    /\ UNCHANGED <<pc, macros, macFile, cfgWritable, macWritable>>

MenuSetDelay ==
    /\ Chosen(5)
    /\ \E inp \in OneLine(DelayLines) :
         LET delay == ReadIndex(inp, 1)
         IN  /\ config' = IF delay < 0 THEN config
                          ELSE [config EXCEPT !.default_delay_ms = delay]
             /\ eof' = (Len(inp) = 0)
             /\ last' = [op |-> "delay", in |-> inp]
    /\ sink' = <<>>
    /\ UNCHANGED <<pc, macros, Files>>

\* MenuSave that reloads the files when one of them cannot be written
MenuSaveRollback ==
    /\ Chosen(6)
    /\ cfgFile' = SaveConfig(cfgFile, cfgWritable, config)
    /\ macFile' = SaveMacros(macFile, macWritable, macros)
    /\ config' = IF cfgWritable /\ macWritable THEN config ELSE LoadConfig(cfgFile)
    /\ macros' = IF cfgWritable /\ macWritable THEN macros ELSE LoadMacros(macFile)
    /\ sink' = <<>>
    /\ last' = [op |-> "save", in |-> <<>>]
    /\ UNCHANGED <<pc, eof, cfgWritable, macWritable>>

MenuSave ==
    /\ Chosen(6)
    /\ cfgFile' = SaveConfig(cfgFile, cfgWritable, config)
    /\ macFile' = SaveMacros(macFile, macWritable, macros)
    /\ sink' = <<>>
    /\ last' = [op |-> "save", in |-> <<>>]
    /\ UNCHANGED <<pc, config, macros, eof, cfgWritable, macWritable>>

MenuLoad ==
    /\ Chosen(7)
    /\ config' = LoadConfig(cfgFile)
    /\ macros' = LoadMacros(macFile)
    /\ sink' = <<>>
    /\ last' = [op |-> "load", in |-> <<>>]
    /\ UNCHANGED <<pc, eof, Files>>

\* MenuUnknown that leaves the loop, and flushes, at end of input
MenuUnknownExitsAtEof ==
    /\ pc = "menu"
    /\ \/ /\ eof' = TRUE
          /\ pc' = "exit"
          /\ cfgFile' = SaveConfig(cfgFile, cfgWritable, config)
          /\ macFile' = SaveMacros(macFile, macWritable, macros)
       \/ /\ ~eof /\ Choices \ (0..7) # {} /\ eof' = FALSE
          /\ UNCHANGED <<pc, cfgFile, macFile>>
    /\ sink' = <<>>
    /\ last' = [op |-> "unknown", in |-> <<>>]
    /\ UNCHANGED <<config, macros, cfgWritable, macWritable>>

\* any other choice: a line that reads as none of 0..7, or end of input,
\* where ReadIndex returns -1 every time
MenuUnknown ==
    /\ pc = "menu"
    /\ \/ eof' = TRUE
       \/ ~eof /\ Choices \ (0..7) # {} /\ eof' = FALSE
    /\ sink' = <<>>
    /\ last' = [op |-> "unknown", in |-> <<>>]
    /\ UNCHANGED <<pc, config, macros, Files>>

\* MenuQuit without the two saves
MenuQuitNoFlush ==
    /\ Chosen(0)
    /\ pc' = "exit"
    /\ eof' \in BOOLEAN
    /\ sink' = <<>>
    /\ last' = [op |-> "quit", in |-> <<>>]
    /\ UNCHANGED <<config, macros, Files>>

\* choice 0: leave the loop, flush, and read the last line
MenuQuit ==
    /\ Chosen(0)
    /\ cfgFile' = SaveConfig(cfgFile, cfgWritable, config)
    /\ macFile' = SaveMacros(macFile, macWritable, macros)
    /\ pc' = "exit"
    /\ eof' \in BOOLEAN
    /\ sink' = <<>>
    /\ last' = [op |-> "quit", in |-> <<>>]
    /\ UNCHANGED <<config, macros, cfgWritable, macWritable>>

Next ==
    \/ Startup
    \/ MenuList
    \/ MenuRun
    \/ MenuCreate
    \/ MenuDelete
    \/ MenuSetDelay
    \/ MenuSave
    \/ MenuLoad
    \/ MenuUnknown
    \/ MenuQuit

Spec == Init /\ [][Next]_vars

-----------------------------------------------------------------------------
(* The macro codec on its own: SaveMacros and LoadMacros applied, in any    *)
(* order, to a store or to a macros.txt drawn from the sets below.         *)

MaxLines == 4

\* stores to encode: names with inner, leading and trailing spaces, names
\* that read like keywords, and the extreme ints
CodecMacros ==
    { [name |-> "A", actions |-> <<>>],
      [name |-> "a b", actions |-> <<Action("Move", 3, -4), Action("Click", 1, 0)>>],
      [name |-> " x ", actions |-> <<Action("Click", 0, 0), Action("Key", IntMax, 0)>>],
      [name |-> "end", actions |-> <<Action("Delay", IntMin, 0), Action("Delay", 0, 0)>>],
      [name |-> "macro", actions |-> <<Action("Move", -1, 105), Action("Key", -1, 0)>>],
      [name |-> "", actions |-> <<Action("Key", 65, 0)>>] }

RECURSIVE StoresUpTo(_)
StoresUpTo(n) ==
    IF n = 0 THEN {<<>>}
    ELSE LET S == StoresUpTo(n - 1)
         IN  S \cup {Append(ms, m) : ms \in S, m \in CodecMacros}

\* lines of a macros.txt to decode
CodecLines ==
    {"macro A", "macro", "end", "key 7", "move 1 -2", "move x 2", "move 1"}

\* step lines tried inside one open block
StepLines ==
    CodecLines \cup
    {"move", "move 1 x", "move - 3", "move 1 5x", "move 5-3", "move 1 2 x",
     "move 99999999999 1", "click right", "click up", "click", "key", "key +9",
     "delay -1", "delay 1.5", "junk 1", "  ", "\tkey 8"}

RECURSIVE LinesUpTo(_)
LinesUpTo(n) ==
    IF n = 0 THEN {<<>>}
    ELSE LET S == LinesUpTo(n - 1)
         IN  S \cup {Append(ls, l) : ls \in S, l \in CodecLines}

\* the lines joined by "\n", the last one left without a line end
RECURSIVE JoinLines(_, _)
JoinLines(ls, i) ==
    IF i > Len(ls) THEN ""
    ELSE IF i = Len(ls) THEN ls[i]
    ELSE ls[i] \o "\n" \o JoinLines(ls, i + 1)

CodecTexts ==
    {JoinLines(ls, 1) : ls \in LinesUpTo(MaxLines)}
    \cup {JoinLines(<<"macro A", l1, l2>>, 1) : l1, l2 \in StepLines}

MacroCodecInit ==
    /\ pc = "codec"
    /\ config = [default_delay_ms |-> DefaultDelayMs]
    /\ \/ macros \in StoresUpTo(MaxMacros) /\ macFile = NoFile
       \/ macros = <<>> /\ macFile \in {FileOf(t) : t \in CodecTexts}
    /\ cfgFile = NoFile
    /\ cfgWritable = TRUE
    /\ macWritable = TRUE
    /\ eof = FALSE
    /\ sink = <<>>
    /\ last = [op |-> "none", in |-> <<>>]

CodecSaveMacros ==
    /\ pc = "codec"
    /\ macFile' = SaveMacros(macFile, macWritable, macros)
    /\ last' = [op |-> "SaveMacros", in |-> <<>>]
    /\ UNCHANGED <<pc, config, macros, cfgFile, cfgWritable, macWritable, eof, sink>>

CodecLoadMacros ==
    /\ pc = "codec"
    /\ macros' = LoadMacros(macFile)
    /\ last' = [op |-> "LoadMacros", in |-> <<>>]
    /\ UNCHANGED <<pc, config, cfgFile, macFile, cfgWritable, macWritable, eof, sink>>

MacroCodecNext == CodecSaveMacros \/ CodecLoadMacros

MacroCodecSpec == MacroCodecInit /\ [][MacroCodecNext]_vars

-----------------------------------------------------------------------------
(* The config codec on its own                                             *)

CodecDelays ==
    (0..20) \cup {-1, -5, 50, 100, 999, 65536, 1000000, IntMax - 1, IntMax, IntMin}

CodecConfigTexts ==
    {"", "default_delay_ms=7\n", "default_delay_ms=7", "default_delay_ms=abc\n",
     "x=1\ndefault_delay_ms= 12\n", "default_delay_ms=99999999999\n",
     "default_delay_ms\n", " default_delay_ms=3\n", "default_delay_ms =3\n",
     "default_delay_ms=-4\n", "default_delay_ms=5\ndefault_delay_ms=\n",
     "default_delay_ms=+8x\n", "default_delay_ms=6\n\nother=9\n",
     "default_delay_ms=1=2\n", "=3\n", "default_delay_ms=2147483648\n"}

ConfigCodecInit ==
    /\ pc = "codec"
    /\ \/ config \in {[default_delay_ms |-> d] : d \in CodecDelays} /\ cfgFile = NoFile
       \/ config = [default_delay_ms |-> DefaultDelayMs]
          /\ cfgFile \in {FileOf(t) : t \in CodecConfigTexts}
    /\ macros = <<>>
    /\ macFile = NoFile
    /\ cfgWritable = TRUE
    /\ macWritable = TRUE
    /\ eof = FALSE
    /\ sink = <<>>
    /\ last = [op |-> "none", in |-> <<>>]

CodecSaveConfig ==
    /\ pc = "codec"
    /\ cfgFile' = SaveConfig(cfgFile, cfgWritable, config)
    /\ last' = [op |-> "SaveConfig", in |-> <<>>]
    /\ UNCHANGED <<pc, config, macros, macFile, cfgWritable, macWritable, eof, sink>>

CodecLoadConfig ==
    /\ pc = "codec"
    /\ config' = LoadConfig(cfgFile)
    /\ last' = [op |-> "LoadConfig", in |-> <<>>]
    /\ UNCHANGED <<pc, macros, cfgFile, macFile, cfgWritable, macWritable, eof, sink>>

ConfigCodecNext == CodecSaveConfig \/ CodecLoadConfig

ConfigCodecSpec == ConfigCodecInit /\ [][ConfigCodecNext]_vars

-----------------------------------------------------------------------------
(* Properties                                                              *)

NonEmptyNames(ms) == \A i \in 1..Len(ms) : ms[i].name # ""

\* C1: for every store whose macros have non-empty names, SaveMacros
\* followed by LoadMacros yields the same sequence of (name, actions) pairs:
\* same number of macros, same order, same names, same actions.
C1_MacroRoundTrip ==
    [][(last.op = "SaveMacros" /\ last'.op = "LoadMacros" /\ NonEmptyNames(macros))
       => macros' = macros]_vars

C1_Witness ==
    /\ last.op = "LoadMacros"
    /\ Len(macros) = 2
    /\ macros[1] = [name |-> " x ",
                    actions |-> <<Action("Click", 0, 0), Action("Key", IntMax, 0)>>]
    /\ macros[2] = [name |-> "end",
                    actions |-> <<Action("Delay", IntMin, 0), Action("Delay", 0, 0)>>]

\* what the claim lists for one action, with default pause d
ClaimedEvents(action, d) ==
    IF action.type = "Move" THEN SendMouseMove(action.a, action.b) \o Sleep(d)
    ELSE IF action.type = "Click" THEN SendMouseClick(action.a = 1) \o Sleep(d)
    ELSE IF action.type = "Key" THEN SendKey(action.a) \o Sleep(d)
    ELSE Sleep(action.a)

RECURSIVE ClaimedReplay(_, _, _)
ClaimedReplay(actions, d, i) ==
    IF i > Len(actions) THEN <<>>
    ELSE ClaimedEvents(actions[i], d) \o ClaimedReplay(actions, d, i + 1)

\* the macro number entered for the last run or delete, -1 at end of input
Entered == ReadIndex(last.in, 1)

\* C2: RunMacro produces the concatenation, in action order, of the events
\* of each action: a Move, Click or Key followed by one default pause, a
\* Delay by its own wait only.
C2_ReplaySequence ==
    (last.op = "run" /\ Entered >= 1 /\ Entered <= Len(macros))
    => sink = ClaimedReplay(macros[Entered].actions, config.default_delay_ms, 1)

\* the macro number entered in the step to the next state
EnteredNext == ReadIndex(last'.in, 1)

C4_DeleteOutOfRange ==
    [][(last'.op = "delete" /\ (EnteredNext < 1 \/ EnteredNext > Len(macros)))
       => macros' = macros /\ config' = config /\ pc' = "menu"]_vars

C4_Witness ==
    /\ last.op = "delete"
    /\ last.in \in {<<"x">>, <<"3">>}
    /\ Len(macros) = 2

\* C5: creating a macro with an empty entered name leaves the store
\* unchanged and reads no step entry.
C5_CreateEmptyName ==
    [][(last'.op = "create" /\ ReadLine(last'.in, 1) = "")
       => macros' = macros /\ Len(last'.in) <= 1]_vars

C5_Witness ==
    /\ last.op = "create"
    /\ last.in = <<"">>
    /\ Len(macros) = 1

\* what the lines of CodecLines and StepLines are, by the file format
IsMacroLine(l) == l \in {"macro A", "macro"}

IsEndLine(l) == l = "end"

ExpectedName(l) == IF l = "macro A" THEN "A" ELSE ""

ExpectedSteps(l) ==
    CASE l = "key 7" -> <<Action("Key", 7, 0)>>
      [] l = "move 1 -2" -> <<Action("Move", 1, -2)>>
      [] l = "move 1 5x" -> <<Action("Move", 1, 5)>>
      [] l = "move 5-3" -> <<Action("Move", 5, -3)>>
      [] l = "move 1 2 x" -> <<Action("Move", 1, 2)>>
      [] l = "click right" -> <<Action("Click", 1, 0)>>
      [] l = "click up" -> <<Action("Click", 0, 0)>>
      [] l = "key +9" -> <<Action("Key", 9, 0)>>
      [] l = "delay -1" -> <<Action("Delay", -1, 0)>>
      [] l = "delay 1.5" -> <<Action("Delay", 1, 0)>>
      [] l = "\tkey 8" -> <<Action("Key", 8, 0)>>
      [] OTHER -> <<>>

RECURSIVE ExpectedBlock(_, _)
ExpectedBlock(ls, i) ==
    IF i > Len(ls) THEN <<>> ELSE ExpectedSteps(ls[i]) \o ExpectedBlock(ls, i + 1)

\* line k opens a block that no later line closes
OpenAtEof(ls, k) ==
    /\ IsMacroLine(ls[k])
    /\ \A j \in (k + 1)..Len(ls) : ~IsMacroLine(ls[j]) /\ ~IsEndLine(ls[j])

\* C6: a macros.txt whose last `macro` block has no `end` line still yields
\* that macro, as the last element, with all the steps parsed for it before
\* the end of input.
C6_EofClosesBlock ==
    (last.op = "LoadMacros" /\ macFile.exists)
    => LET ls == GetLines(macFile.text)
       IN  \A k \in 1..Len(ls) :
             ((\A j \in 1..Len(ls) : ls[j] \in StepLines) /\ OpenAtEof(ls, k))
             => /\ macros # <<>>
                /\ macros[Len(macros)] =
                     [name |-> ExpectedName(ls[k]),
                      actions |-> ExpectedBlock(ls, k + 1)]

C6_Witness ==
    /\ last.op = "LoadMacros"
    /\ macFile.text = "macro A\nend\nmacro\nkey 7"
    /\ Len(macros) = 2
    /\ macros[2].actions = <<Action("Key", 7, 0)>>

\* `move` lines whose dx or dy is a token that is no number, or is missing
BadMoveLines == {"move x 2", "move 1 x", "move - 3", "move 1", "move"}

\* line i lies inside a block
InBlock(ls, i) ==
    \E k \in 1..(i - 1) :
        IsMacroLine(ls[k]) /\ \A j \in (k + 1)..(i - 1) : ~IsEndLine(ls[j])

WithoutLine(ls, i) == SubSeq(ls, 1, i - 1) \o SubSeq(ls, i + 1, Len(ls))

C8_ConfigRoundTrip ==
    [][(last.op = "SaveConfig" /\ last'.op = "LoadConfig"
        /\ config.default_delay_ms >= 0)
       => config' = config]_vars

C8_Witness ==
    /\ last.op = "LoadConfig"
    /\ cfgFile.text = "default_delay_ms=2147483647\n"
    /\ config.default_delay_ms = IntMax

\* C9: loading an absent config.txt yields default_delay_ms = 50 and loading
\* an absent macros.txt yields an empty store, at startup and on the menu's
\* Load alike.
C9_AbsentResources ==
    last.op \in {"start", "load"}
    => /\ ~cfgFile.exists => config.default_delay_ms = 50
       /\ ~macFile.exists => macros = <<>>

\* Load with config.txt absent (it cannot be written) after a macro was
\* created and saved: the config is the default and the store the saved one
C9_Witness ==
    /\ last.op = "load"
    /\ ~cfgFile.exists
    /\ macFile.exists
    /\ config.default_delay_ms = 50
    /\ macros # <<>>

\* C10: after Save (choice 6) and after Quit (choice 0), when both files are
\* writable, config.txt decodes to the in-memory default_delay_ms and
\* macros.txt decodes to the in-memory store.
C10_Flushed ==
    (last.op \in {"save", "quit"} /\ cfgWritable /\ macWritable)
    => LoadConfig(cfgFile) = config /\ LoadMacros(macFile) = macros

C10_Witness ==
    /\ last.op = "quit"
    /\ pc = "exit"
    /\ Len(macros) = 2
    /\ config.default_delay_ms = 7
    /\ cfgFile.text = "default_delay_ms=7\n"
    /\ macFile.exists

\* C11: a Save (choice 6) with config.txt or macros.txt not writable leaves
\* the store and the config as they were before it, and main() stays in the
\* menu loop, reading the next command.
C11_SaveFailureKeepsState ==
    [][(last'.op = "save" /\ (~cfgWritable \/ ~macWritable))
       => /\ macros' = macros
          /\ config' = config
          /\ pc' = "menu"
          /\ eof' = eof]_vars

\* a failed Save with a store and a config that differ from what the files hold
C11_Witness ==
    /\ last.op = "save"
    /\ ~macWritable
    /\ ~cfgWritable
    /\ pc = "menu"
    /\ macros # LoadMacros(macFile)
    /\ config # LoadConfig(cfgFile)

\* C12: every Run of a valid macro number executes every action of the
\* macro and returns to the menu, whatever the action values and the
\* default_delay_ms are.
C12_ReplayCompletes ==
    (last.op = "run" /\ Entered >= 1 /\ Entered <= Len(macros))
    => /\ pc = "menu"
       /\ RunMacro(macros[Entered], config).done

\* C13: default_delay_ms is non-negative in every state main() reaches.
C13_DelayNonNegative == config.default_delay_ms >= 0

\* the k-th line of inp is there and reads as an integer
EnteredInt(inp, k) == k <= Len(inp) /\ Stoi(inp[k]).ok

\* what the claim has a step entry append: every integer entered is taken
ClaimedStepEntry(step, inp, k) ==
    IF step = "move"
    THEN [add |-> IF EnteredInt(inp, k + 1) /\ EnteredInt(inp, k + 2)
                  THEN <<Action("Move", Stoi(inp[k + 1]).val, Stoi(inp[k + 2]).val)>>
                  ELSE <<>>,
          next |-> k + 3]
    ELSE IF step = "click"
    THEN [add |-> <<Action("Click", IF ReadLine(inp, k + 1) = "right" THEN 1 ELSE 0, 0)>>,
          next |-> k + 2]
    ELSE IF step \in {"key", "delay"}
    THEN [add |-> IF EnteredInt(inp, k + 1)
                  THEN <<Action(IF step = "key" THEN "Key" ELSE "Delay",
                                Stoi(inp[k + 1]).val, 0)>>
                  ELSE <<>>,
          next |-> k + 2]
    ELSE [add |-> <<>>, next |-> k + 1]

RECURSIVE ClaimedSteps(_, _)
ClaimedSteps(inp, k) ==
    IF k > Len(inp) \/ inp[k] = "done" THEN <<>>
    ELSE LET e == ClaimedStepEntry(inp[k], inp, k)
         IN  e.add \o ClaimedSteps(inp, e.next)

\* C14: in Create, every integer entered for dx, dy, vk or ms is accepted:
\* the macro appended holds one step per step entry whose numbers read as
\* integers, with exactly the entered values.
C14_NoRangeValidation ==
    (last.op = "create" /\ ReadLine(last.in, 1) # "")
    => /\ macros # <<>>
       /\ macros[Len(macros)].actions = ClaimedSteps(last.in, 2)

\* C15: every macro of the store has a non-empty name in every state main()
\* reaches.
C15_NamesNonEmpty == \A i \in 1..Len(macros) : macros[i].name # ""

\* the number of `macro` lines among the first k lines
MacroLinesUpTo(ls, k) == Cardinality({i \in 1..k : IsMacroLine(ls[i])})

\* the first line after line j that is a `macro` or an `end` line, or the
\* position after the last line
BlockEnd(ls, j) ==
    IF \E e \in (j + 1)..Len(ls) : IsMacroLine(ls[e]) \/ IsEndLine(ls[e])
    THEN CHOOSE e \in (j + 1)..Len(ls) :
           /\ IsMacroLine(ls[e]) \/ IsEndLine(ls[e])
           /\ \A m \in (j + 1)..(e - 1) : ~IsMacroLine(ls[m]) /\ ~IsEndLine(ls[m])
    ELSE Len(ls) + 1

\* the macro that the block opened by line k must decode to
ExpectedMacro(ls, k) ==
    [name |-> ExpectedName(ls[k]),
     actions |-> ExpectedBlock(SubSeq(ls, k + 1, BlockEnd(ls, k) - 1), 1)]

\* C16: when a `macro` line j follows a `macro` line k with no `end` line in
\* between, the macro of line k is emitted with exactly the steps of the
\* lines between k and j, the macro of line j follows it with exactly the
\* steps after line j, and the store holds one macro per `macro` line.
C16_MacroClosesBlock ==
    (last.op = "LoadMacros" /\ macFile.exists)
    => LET ls == GetLines(macFile.text)
       IN  (\A i \in 1..Len(ls) : ls[i] \in StepLines)
           => \A k \in 1..Len(ls) :
                (IsMacroLine(ls[k]) /\ BlockEnd(ls, k) <= Len(ls)
                 /\ IsMacroLine(ls[BlockEnd(ls, k)]))
                => LET j == BlockEnd(ls, k)
                       n == MacroLinesUpTo(ls, k)
                   IN  /\ Len(macros) = MacroLinesUpTo(ls, Len(ls))
                       /\ macros[n] = ExpectedMacro(ls, k)
                       /\ macros[n + 1] = ExpectedMacro(ls, j)

C16_Witness ==
    /\ last.op = "LoadMacros"
    /\ macFile.text = "macro A\nkey 7\nmacro\nmove 1 -2"
    /\ macros = <<[name |-> "A", actions |-> <<Action("Key", 7, 0)>>],
                  [name |-> "", actions |-> <<Action("Move", 1, -2)>>]>>

\* the macro each entry sequence of CreateInputs with a name must add: the
\* steps the prompts accepted, in entry order
ExpectedCreated(inp) ==
    CASE inp = <<"A", "move", "-1", "5", "move", "3", "-4", "click", "right",
                 "key", "65", "done">>
           -> [name |-> "A",
               actions |-> <<Action("Move", 3, -4), Action("Click", 1, 0),
                             Action("Key", 65, 0)>>]
      [] inp = <<"C", "delay", "-1", "key", "x", "jump", "done">>
           -> [name |-> "C", actions |-> <<>>]
      [] inp = <<"B", "delay", "-2">>
           -> [name |-> "B", actions |-> <<Action("Delay", -2, 0)>>]
      [] inp = <<"C", "jump", "key", "x">> -> [name |-> "C", actions |-> <<>>]
      [] OTHER -> EmptyMacro

\* C17: a Create with a non-empty name appends exactly one macro at the end
\* of the store, with the accepted steps in entry order, whether the entry
\* ends with `done` or with end of input and even without any accepted step;
\* the macros already in the store keep their content and order.
C17_CreateAppendsOne ==
    [][(last'.op = "create" /\ ReadLine(last'.in, 1) # "")
       => macros' = Append(macros, ExpectedCreated(last'.in))]_vars

\* a Create that ended on end of input without any accepted step
C17_Witness ==
    /\ last.op = "create"
    /\ last.in = <<"C", "jump", "key", "x">>
    /\ eof
    /\ Len(macros) = 2
    /\ macros[1].name = "A"
    /\ macros[2] = [name |-> "C", actions |-> <<>>]

\* C18: List and Run leave the store and the config as they were, and a Run
\* whose macro number is below 1, above the size of the store or unparsable
\* hands no event to SendInput or Sleep.
C18_ListRunReadOnly ==
    [][(last'.op \in {"list", "run"})
       => /\ macros' = macros
          /\ config' = config
          /\ (last'.op = "run" /\ (EnteredNext < 1 \/ EnteredNext > Len(macros)))
             => sink' = <<>> /\ pc' = "menu"]_vars

\* a Run with a macro number above the size of a store of two macros
C18_Witness ==
    /\ last.op = "run"
    /\ last.in = <<"3">>
    /\ Len(macros) = 2
    /\ macros[2].actions # <<>>
    /\ sink = <<>>
    /\ pc = "menu"

\* C19: config.txt and macros.txt change only in a Save (choice 6) or a Quit
\* (choice 0) step; Create, Delete, Set default delay, List, Run, Load and an
\* unknown choice leave them as they are, and a Load makes the store and the
\* config what the two files decode to, whatever they were before.
C19_FilesWrittenBySaveAndQuit ==
    [][/\ (cfgFile' # cfgFile \/ macFile' # macFile) => last'.op \in {"save", "quit"}
       /\ last'.op = "load"
          => /\ config' = LoadConfig(cfgFile) /\ macros' = LoadMacros(macFile)
             /\ cfgFile' = cfgFile /\ macFile' = macFile]_vars

\* a Load that brought back the store and the delay of an earlier Save
C19_Witness ==
    /\ last.op = "load"
    /\ macFile.text = "macro C\nend\n"
    /\ macros = <<[name |-> "C", actions |-> <<>>]>>
    /\ cfgFile.text = "default_delay_ms=7\n"
    /\ config.default_delay_ms = 7

====
